---- MODULE Spec2Model ----
(***************************************************************************)
(* 4castr: the agent-swarm pipeline of App.tsx (startAnalysis / reset)     *)
(* and the three service functions of services/geminiService               *)
(* (orchestrateAgents, runAgentAnalysis, generateConsensus).               *)
(*                                                                         *)
(* JavaScript values are tagged records [t |-> tag, v |-> payload]; an     *)
(* object's payload is a function from its field names to values.  A text  *)
(* is a sequence of tokens: " " (whitespace), "FENCE" (three backticks),   *)
(* "json" (the word), "x" (any other non-JSON characters) and the names of *)
(* JSON documents, whose parsed values DocValue gives.                     *)
(***************************************************************************)
EXTENDS Integers, Sequences, FiniteSets, TLC

VARIABLES
    analysis,         \* App: the MarketAnalysis state
    inputText,        \* App: the text of the input box
    isOrchestrating,  \* App: the spinner flag
    runs,             \* the frames of the startAnalysis invocations, in start order
    current,          \* history: the run the user last started and has not reset, or 0
    call,             \* a service function called on its own: its arguments
    ret               \* ... and what its promise settled to

vars == <<analysis, inputText, isOrchestrating, runs, current, call, ret>>

\* ------------------------------------------------------------ bounds

MaxRuns == 2

MaxLen == 3

\* The longest findings list generateConsensus is called with on its own.
MaxFindings == 2

\* ------------------------------------------------------------ JS values

JUndefined == [t |-> "undefined"]

JNull == [t |-> "null"]

JNum(n) == [t |-> "num", v |-> n]

JStr(s) == [t |-> "str", v |-> s]

JArr(s) == [t |-> "arr", v |-> s]

JObj(f) == [t |-> "obj", v |-> f]

JError(name) == [t |-> "error", v |-> name]

HasField(o, k) == o.t = "obj" /\ k \in DOMAIN o.v

\* o.k as JavaScript reads it from a non-nullish value: undefined when absent
\* (a string, a number or an array has none of the fields read here).
GetField(o, k) == IF HasField(o, k) THEN o.v[k] ELSE JUndefined

IsNullish(x) == x.t \in {"undefined", "null"}

\* ------------------------------------------------------------ types.ts

Predictions == {"YES", "NO", "UNCERTAIN"}

IsStringArray(x) == x.t = "arr" /\ \A i \in 1..Len(x.v) : x.v[i].t = "str"

IsAgentFindings(x) ==
    /\ x.t = "obj"
    /\ HasField(x, "keyFindings") /\ IsStringArray(x.v["keyFindings"])
    /\ HasField(x, "confidenceScore") /\ x.v["confidenceScore"].t = "num"
    /\ x.v["confidenceScore"].v \in 0..100
    /\ HasField(x, "prediction") /\ x.v["prediction"].t = "str"
    /\ x.v["prediction"].v \in Predictions
    /\ HasField(x, "reasoning") /\ x.v["reasoning"].t = "str"

\* ------------------------------------------------------------ constants.ts

AVAILABLE_AGENTS ==
    <<"Newsfeed", "Social Media", "Reddit", "Finance", "Macro", "Entertainment">>

\* ------------------------------------------------------------ JSON documents

Findings(kf, score, pred, why) ==
    JObj([keyFindings |-> JArr(kf), confidenceScore |-> JNum(score),
          prediction |-> JStr(pred), reasoning |-> JStr(why)])

Selection(roles) ==
    JObj([selectedAgents |-> JArr(roles), reasoning |-> JStr("most relevant")])

Consensus(p, reasons, verdict) ==
    JObj([probability |-> JNum(p), topReasons |-> JArr(reasons),
          verdict |-> JStr(verdict)])

\* What JSON.parse returns for each document a response text can hold.
DocValue ==
    [ dNull      |-> JNull,
      dString    |-> JStr("no idea"),
      dArray     |-> JArr(<<>>),
      dEmpty     |-> JObj([note |-> JStr("n/a")]),
      dYes       |-> Findings(<<JStr("f1"), JStr("f2"), JStr("f3")>>, 80, "YES", "because"),
      dNo        |-> Findings(<<JStr("g1"), JStr("g2"), JStr("g3")>>, 30, "NO", "since"),
      dScore     |-> Findings(<<JStr("f1")>>, 150, "YES", "sure"),
      dMaybe     |-> Findings(<<JStr("f1")>>, 60, "MAYBE", "hm"),
      dNoArr     |-> JObj([keyFindings |-> JStr("f1"), confidenceScore |-> JNum(60),
                           prediction |-> JStr("NO"), reasoning |-> JStr("hm")]),
      sThree     |-> Selection(<<JStr("Finance"), JStr("Macro"), JStr("Newsfeed")>>),
      sTwo       |-> Selection(<<JStr("Macro"), JStr("Finance")>>),
      sDup       |-> Selection(<<JStr("Reddit"), JStr("Reddit")>>),
      sAlien     |-> Selection(<<JStr("Weather"), JNum(7)>>),
      sMixed     |-> Selection(<<JStr("Weather"), JStr("Finance"), JStr("Orchestrator"),
                                 JStr("Macro"), JStr("Reddit"), JStr("Newsfeed")>>),
      sNoList    |-> JObj([reasoning |-> JStr("none fits")]),
      sText      |-> JObj([selectedAgents |-> JStr("Finance"), reasoning |-> JStr("one")]),
      cGood      |-> Consensus(72, <<JStr("r1"), JStr("r2"), JStr("r3")>>, "Likely"),
      cTwo       |-> Consensus(40, <<JStr("r1"), JStr("r2")>>, "Unlikely"),
      cHigh      |-> Consensus(140, <<JStr("r1"), JStr("r2"), JStr("r3")>>, "Certain") ]

Docs == DOMAIN DocValue

\* ------------------------------------------------------------ strings

\* String.prototype.trim
RECURSIVE TrimStart(_)
TrimStart(s) == IF s # <<>> /\ Head(s) = " " THEN TrimStart(Tail(s)) ELSE s

RECURSIVE TrimEnd(_)
TrimEnd(s) ==
    IF s # <<>> /\ s[Len(s)] = " " THEN TrimEnd(SubSeq(s, 1, Len(s) - 1)) ELSE s

Trim(s) == TrimEnd(TrimStart(s))

\* jsonStr.startsWith(FENCE)
StartsWithFence(s) == s # <<>> /\ Head(s) = "FENCE"

\* Mutant of StripFences: only the opening fence is removed.
StripOpeningFence(s) ==
    IF Len(s) >= 2 /\ s[2] = "json" THEN SubSeq(s, 3, Len(s)) ELSE Tail(s)

\* jsonStr.replace(/^FENCE(json)?|FENCE$/g, '') on a text that starts with a fence:
\* the fence at the very start goes, with the word json right after it; of what
\* is left, a fence at the very end goes.  Fences elsewhere stay.
StripFences(s) ==
    LET afterOpen == IF Len(s) >= 2 /\ s[2] = "json" THEN SubSeq(s, 3, Len(s))
                     ELSE Tail(s)
    IN  IF afterOpen # <<>> /\ afterOpen[Len(afterOpen)] = "FENCE"
        THEN SubSeq(afterOpen, 1, Len(afterOpen) - 1)
        ELSE afterOpen

\* JSON.parse: whitespace around one document is skipped; anything else is a
\* SyntaxError.
JSONParse(s) ==
    LET body == Trim(s)
    IN  IF Len(body) = 1 /\ body[1] \in Docs
        THEN [ok |-> TRUE, v |-> DocValue[body[1]]]
        ELSE [ok |-> FALSE, v |-> JError("SyntaxError")]

\* ------------------------------------------------------------ service outcomes

\* generateContent either throws (rejects with) a value, or returns a response
\* whose .text is a string or undefined.
Throws(x) == [kind |-> "throw", thrown |-> x, hasText |-> FALSE, text |-> <<>>]

Responds(s) == [kind |-> "response", thrown |-> JUndefined, hasText |-> TRUE, text |-> s]

NoText == [kind |-> "response", thrown |-> JUndefined, hasText |-> FALSE, text |-> <<>>]

\* if (response.text): undefined and '' are falsy.
TextTruthy(o) == o.hasText /\ o.text # <<>>

Resolved(x) == [kind |-> "resolved", v |-> x]

Rejected(x) == [kind |-> "rejected", v |-> x]

\* ------------------------------------------------------------ geminiService

Min(a, b) == IF a < b THEN a ELSE b

\* Mutant of Slice3: the fallback is the whole catalog.
SliceAll(s) == s

\* availableRoles.slice(0, 3)
Slice3(s) == SubSeq(s, 1, Min(3, Len(s)))

\* Mutant of Includes: the filter predicate accepts every name.
IncludesAnything(s, x) == TRUE

\* availableRoles.includes(r)
Includes(s, x) == \E i \in 1..Len(s) : s[i] = x

\* selectedAgents.filter(r => availableRoles.includes(r)), as role names
RECURSIVE FilterRoles(_, _)
FilterRoles(sel, availableRoles) ==
    IF sel = <<>> THEN <<>>
    ELSE LET r == Head(sel)
             rest == FilterRoles(Tail(sel), availableRoles)
         IN  IF r.t = "str" /\ Includes(availableRoles, r.v) THEN <<r.v>> \o rest
             ELSE rest

\* orchestrateAgents(topic, availableRoles) when generateContent ends as o.
\* data.selectedAgents.filter throws a TypeError inside the try when data is
\* null or selectedAgents is no array; the catch returns the fallback.
orchestrateAgents(topic, availableRoles, o) ==
    IF o.kind = "throw" THEN Slice3(availableRoles)
    ELSE IF TextTruthy(o)
    THEN LET p == JSONParse(o.text)
         IN  IF ~p.ok THEN Slice3(availableRoles)
             ELSE IF IsNullish(p.v) THEN Slice3(availableRoles)
             ELSE IF GetField(p.v, "selectedAgents").t # "arr"
             THEN Slice3(availableRoles)
             ELSE FilterRoles(GetField(p.v, "selectedAgents").v, availableRoles)
    ELSE Slice3(availableRoles)

AgentSentinel ==
    Findings(<<JStr("Data unavailable"), JStr("Analysis inconclusive"),
               JStr("Check source manually")>>,
             50, "UNCERTAIN", "Analysis failed due to connection or model error.")

\* The catch block of runAgentAnalysis: console.error(..., e.message || e, e.stack)
\* reads e.message, a TypeError when e is null or undefined, which leaves the
\* async function rejected; otherwise control falls through to the sentinel.
AgentCatch(e) ==
    IF IsNullish(e) THEN Rejected(JError("TypeError")) ELSE Resolved(AgentSentinel)

\* Lines 173-176: the text that is handed to JSON.parse.
Unfenced(text) ==
    LET jsonStr == Trim(text)
    IN  IF StartsWithFence(jsonStr) THEN Trim(StripFences(jsonStr)) ELSE jsonStr

\* The try block of runAgentAnalysis once generateContent has returned.
AgentParse(o) ==
    IF TextTruthy(o)
    THEN LET p == JSONParse(Unfenced(o.text))
         IN  IF p.ok THEN Resolved(p.v) ELSE AgentCatch(p.v)
    ELSE Resolved(AgentSentinel)

\* runAgentAnalysis(role, topic) when generateContent ends as o.
runAgentAnalysis(role, topic, o) ==
    IF o.kind = "throw" THEN AgentCatch(o.thrown) ELSE AgentParse(o)

ConsensusSentinel ==
    Consensus(50, <<JStr("Conflicting data"), JStr("Insufficient consensus")>>,
              "Unable to reach consensus.")

\* Building the context string reads a.data.prediction and calls
\* a.data.keyFindings.join: a TypeError, before the try, when a.data is null or
\* its keyFindings is no array.
ContextThrows(agentResults) ==
    \E i \in 1..Len(agentResults) :
        LET d == agentResults[i].data
        IN  IsNullish(d) \/ GetField(d, "keyFindings").t # "arr"

\* Mutant of ConsensusParse: no catch block, a failed call or parse propagates.
ConsensusParseUncaught(o) ==
    IF o.kind = "throw" THEN Rejected(o.thrown)
    ELSE IF TextTruthy(o)
    THEN LET p == JSONParse(o.text)
         IN  IF p.ok THEN Resolved(p.v) ELSE Rejected(p.v)
    ELSE Resolved(ConsensusSentinel)

\* The try block of generateConsensus and the sentinel after it.
ConsensusParse(o) ==
    IF o.kind = "throw" THEN Resolved(ConsensusSentinel)
    ELSE IF TextTruthy(o)
    THEN LET p == JSONParse(o.text)
         IN  IF p.ok THEN Resolved(p.v) ELSE Resolved(ConsensusSentinel)
    ELSE Resolved(ConsensusSentinel)

\* generateConsensus(topic, agentResults) when generateContent ends as o.
generateConsensus(topic, agentResults, o) ==
    IF ContextThrows(agentResults) THEN Rejected(JError("TypeError"))
    ELSE ConsensusParse(o)

\* ------------------------------------------------------------ App.tsx state

\* useState<MarketAnalysis>({topic: '', status: 'input', agents: []}); an absent
\* finalConsensus reads as undefined.  reset() installs the same value.
InitialAnalysis ==
    [topic |-> <<>>, status |-> "input", agents |-> <<>>, finalConsensus |-> JUndefined]

\* Mutant of NewAgent: the id is the role's position in the catalog, not in the
\* selection.
NewAgentIdByRole(r, idx, role) ==
    [id |-> (CHOOSE k \in 1..Len(AVAILABLE_AGENTS) : AVAILABLE_AGENTS[k] = role) - 1,
     role |-> role, status |-> "selected", findings |-> JUndefined, run |-> r]

\* One Agent of newAgents: {...template, id: idx.toString(), status: 'selected'}.
\* The template's presentation fields are a function of the role and are left
\* out; run is a history field naming the startAnalysis invocation that made it.
NewAgent(r, idx, role) ==
    [id |-> idx, role |-> role, status |-> "selected", findings |-> JUndefined,
     run |-> r]

NewAgents(r, selectedRoles) ==
    [i \in 1..Len(selectedRoles) |-> NewAgent(r, i - 1, selectedRoles[i])]

\* prev.agents.map(a => a.id === agent.id ? {...a, status: 'analyzing'} : a)
SetAnalyzing(agents, agent) ==
    [k \in 1..Len(agents) |->
        IF agents[k].id = agent.id THEN [agents[k] EXCEPT !.status = "analyzing"]
        ELSE agents[k]]

\* Mutant of SetCompleted: the update maps a snapshot of agents taken when the
\* callback started (all 'analyzing', no findings) instead of prev.agents.
SetCompletedFromSnapshot(agents, agent, results) ==
    [k \in 1..Len(agents) |->
        IF agents[k].id = agent.id
        THEN [agents[k] EXCEPT !.status = "completed", !.findings = results]
        ELSE [agents[k] EXCEPT !.status = "analyzing", !.findings = JUndefined]]

\* prev.agents.map(a => a.id === agent.id
\*                      ? {...a, status: 'completed', findings: results} : a)
SetCompleted(agents, agent, results) ==
    [k \in 1..Len(agents) |->
        IF agents[k].id = agent.id
        THEN [agents[k] EXCEPT !.status = "completed", !.findings = results]
        ELSE agents[k]]

\* Mutant of SetAllAnalyzing: the callbacks run one after the other, only the
\* first has started.
SetFirstAnalyzing(agents, todo) ==
    IF todo = <<>> THEN agents ELSE SetAnalyzing(agents, Head(todo))

\* The synchronous head of every callback of newAgents.map(async agent => ...),
\* in order: each sets its agent to 'analyzing' and issues its call.
RECURSIVE SetAllAnalyzing(_, _)
SetAllAnalyzing(agents, todo) ==
    IF todo = <<>> THEN agents
    ELSE SetAllAnalyzing(SetAnalyzing(agents, Head(todo)), Tail(todo))

\* Mutant of NewRun: the calls of the first three catalog roles are issued at
\* submission, before the orchestrator has answered.
NewRunEager(topic) ==
    [topic |-> topic, pc |-> "orch", selectedRoles |-> <<>>,
     newAgents |-> NewAgents(0, Slice3(AVAILABLE_AGENTS)),
     agentCall |-> [i \in 1..3 |-> "pending"],
     results |-> [i \in 1..3 |-> JUndefined], allFindings |-> <<>>, consCalls |-> 0,
     submitted |-> topic, callTopics |-> {topic}]

\* The frame of one startAnalysis invocation: the captured inputText, where it
\* is suspended, selectedRoles, newAgents, the state of each agent callback's
\* call, the value each resolved to, the list handed to generateConsensus, and
\* (history) how many times it has called generateConsensus, the topic it was
\* submitted with and the topics its service calls were given; the call of
\* orchestrateAgents is issued at submission.
NewRun(topic) ==
    [topic |-> topic, pc |-> "orch", selectedRoles |-> <<>>, newAgents |-> <<>>,
     agentCall |-> <<>>, results |-> <<>>, allFindings |-> <<>>, consCalls |-> 0,
     submitted |-> topic, callTopics |-> {topic}]

\* A frame that has returned, or was rejected by one of its agent calls, and
\* has no callback left: its locals are gone.
EndedRun(run) ==
    [topic |-> <<>>, pc |-> run.pc, selectedRoles |-> <<>>, newAgents |-> <<>>,
     agentCall |-> <<>>, results |-> <<>>, allFindings |-> <<>>,
     consCalls |-> run.consCalls, submitted |-> run.submitted,
     callTopics |-> run.callTopics]

\* Mutant of CallTopic: the calls read the input box as it is when they are
\* issued.
CallTopicLatest(run) == inputText

\* The inputText a run passes to runAgentAnalysis and generateConsensus: the
\* constant of the render in which startAnalysis was created.
CallTopic(run) == run.topic

AnyPending(run) == \E k \in 1..Len(run.agentCall) : run.agentCall[k] = "pending"

Settle(run) ==
    IF run.pc \in {"done", "failed"} /\ ~AnyPending(run) THEN EndedRun(run)
    ELSE run

\* Mutant of AllReturned: the first callback to return is enough (Promise.any).
AnyReturned(run) ==
    \/ run.agentCall = <<>>
    \/ \E k \in 1..Len(run.agentCall) : run.agentCall[k] = "resolved"

\* Promise.all(agentPromises) resolves once every callback has returned ...
AllReturned(run) ==
    \A k \in 1..Len(run.agentCall) : run.agentCall[k] = "resolved"

\* Mutant of AllFindings: the list is built back to front.
AllFindingsReversed(run) ==
    [i \in 1..Len(run.newAgents) |->
        [role |-> run.newAgents[Len(run.newAgents) + 1 - i].role,
         data |-> run.results[Len(run.newAgents) + 1 - i]]]

\* ... to the callbacks' return values in the order of newAgents.
AllFindings(run) ==
    [i \in 1..Len(run.newAgents) |->
        [role |-> run.newAgents[i].role, data |-> run.results[i]]]

\* Lines 70-72: status becomes 'consensus' and generateConsensus is called; it
\* rejects at once when building its context throws, which rejects
\* startAnalysis.
BeginConsensus(run) ==
    LET found == AllFindings(run)
    IN  [run EXCEPT !.pc = IF ContextThrows(found) THEN "failed" ELSE "cons",
                    !.allFindings = found, !.consCalls = @ + 1,
                    !.callTopics = @ \cup {CallTopic(run)}]

\* ------------------------------------------------------------ inputs

\* What the user can have in the input box.
Texts == {<<>>, <<" ">>, <<"a">>}

TextsWide == Texts \cup {<<" ", "b", " ">>, <<" ", " ">>}

ThrownValues == {JError("Error"), JStr("timeout"), JNull, JUndefined}

\* The service outcomes the pipeline is run against when runs overlap: the
\* orchestrator selects two roles (not in catalog order) or none of the
\* catalog; the call of agent i fails with an Error, fails with undefined, or
\* answers with its findings document.
OrchReplies == {Responds(<<"sTwo">>), Responds(<<"sAlien">>)}

AgentReplies(i) ==
    {Throws(JError("Error")), Throws(JUndefined),
     Responds(<<IF i % 2 = 1 THEN "dYes" ELSE "dNo">>)}

ConsensusReplies == {Throws(JError("Error")), Responds(<<"cGood">>)}

\* The wider outcomes a single run is run against; the orchestrator call may
\* fail there, which selects the first three roles.
OrchRepliesWide ==
    OrchReplies \cup {Throws(JError("Error")), NoText, Responds(<<"sDup">>),
                      Responds(<<"sNoList">>), Responds(<<"x">>)}

AgentRepliesWide(i) ==
    AgentReplies(i) \cup {NoText, Responds(<<"dNull">>), Responds(<<"dEmpty">>),
                          Responds(<<"FENCE", "json", "dYes", "FENCE">>)}

ConsensusRepliesWide ==
    ConsensusReplies \cup {NoText, Responds(<<"cTwo">>), Responds(<<"dNull">>)}

NoCall == [fn |-> "none", role |-> "", o |-> NoText]

NotReturned == [kind |-> "pending", v |-> JUndefined]

\* ------------------------------------------------------------ actions

Init ==
    /\ analysis = InitialAnalysis
    /\ inputText = <<>>
    /\ isOrchestrating = FALSE
    /\ runs = <<>>
    /\ current = 0
    /\ call = NoCall
    /\ ret = NotReturned

\* onChange / the suggestion buttons; the form is rendered while status is 'input'.
SetInputText(s) ==
    /\ analysis.status = "input"
    /\ inputText' = s
    /\ UNCHANGED <<analysis, isOrchestrating, runs, current, call, ret>>

\* Mutant of StartAnalysis: no guard on the trimmed input text.
StartAnalysisUnguarded ==
    /\ analysis.status = "input"
    /\ Len(runs) < MaxRuns
    /\ analysis' = [analysis EXCEPT !.topic = inputText, !.status = "orchestrating"]
    /\ isOrchestrating' = TRUE
    /\ runs' = Append(runs, NewRun(inputText))
    /\ current' = Len(runs) + 1
    /\ UNCHANGED <<inputText, call, ret>>

\* startAnalysis up to its first await (the form is rendered while status is
\* 'input').
StartAnalysis ==
    /\ analysis.status = "input"
    /\ Len(runs) < MaxRuns
    /\ IF Trim(inputText) = <<>>
       THEN UNCHANGED vars
       ELSE /\ analysis' = [analysis EXCEPT !.topic = inputText,
                                            !.status = "orchestrating"]
            /\ isOrchestrating' = TRUE
            /\ runs' = Append(runs, NewRun(inputText))
            /\ current' = Len(runs) + 1
            /\ UNCHANGED <<inputText, call, ret>>

\* startAnalysis from the resolution of orchestrateAgents to its next await.
OrchestratorResolves(r, o) ==
    /\ runs[r].pc = "orch"
    /\ LET selectedRoles == orchestrateAgents(runs[r].topic, AVAILABLE_AGENTS, o)
           newAgents == NewAgents(r, selectedRoles)
           swarming == [analysis EXCEPT !.status = "swarming", !.agents = newAgents]
           loading == [swarming EXCEPT !.agents = SetAllAnalyzing(@, newAgents)]
           run == [runs[r] EXCEPT !.pc = "swarm", !.selectedRoles = selectedRoles,
                       !.newAgents = newAgents,
                       !.agentCall = [i \in 1..Len(newAgents) |-> "pending"],
                       !.results = [i \in 1..Len(newAgents) |-> JUndefined],
                       !.callTopics = IF newAgents = <<>> THEN @
                                      ELSE @ \cup {CallTopic(runs[r])}]
       IN  IF AllReturned(run)
           THEN /\ analysis' = [loading EXCEPT !.status = "consensus"]
                /\ runs' = [runs EXCEPT ![r] = BeginConsensus(run)]
           ELSE /\ analysis' = loading
                /\ runs' = [runs EXCEPT ![r] = run]
    /\ isOrchestrating' = FALSE
    /\ UNCHANGED <<inputText, current, call, ret>>

\* One agent callback from the resolution of its runAgentAnalysis call to its
\* return, and, when it is the last one, startAnalysis from the resolution of
\* Promise.all to its next await.  A rejected call rejects Promise.all and with
\* it startAnalysis; the other callbacks still run when their calls resolve.
AgentResolves(r, i, o) ==
    /\ i \in 1..Len(runs[r].agentCall)
    /\ runs[r].agentCall[i] = "pending"
    /\ LET agent == runs[r].newAgents[i]
           res == runAgentAnalysis(agent.role, runs[r].topic, o)
       IN  IF res.kind = "rejected"
           THEN /\ runs' = [runs EXCEPT ![r] =
                       Settle([runs[r] EXCEPT !.agentCall[i] = "rejected",
                                  !.pc = IF @ = "swarm" THEN "failed" ELSE @])]
                /\ UNCHANGED analysis
           ELSE LET completed == [analysis EXCEPT
                                     !.agents = SetCompleted(@, agent, res.v)]
                    run == [runs[r] EXCEPT !.agentCall[i] = "resolved",
                                           !.results[i] = res.v]
                IN  IF run.pc = "swarm" /\ AllReturned(run)
                    THEN /\ analysis' = [completed EXCEPT !.status = "consensus"]
                         /\ runs' = [runs EXCEPT ![r] = BeginConsensus(run)]
                    ELSE /\ analysis' = completed
                         /\ runs' = [runs EXCEPT ![r] = Settle(run)]
    /\ UNCHANGED <<inputText, isOrchestrating, current, call, ret>>

\* Mutant of ConsensusResolves: a failed consensus call is tried once more.
ConsensusResolvesRetry(r, o) ==
    /\ runs[r].pc = "cons"
    /\ IF o.kind = "throw" /\ runs[r].consCalls < 2
       THEN /\ runs' = [runs EXCEPT ![r].consCalls = @ + 1]
            /\ UNCHANGED analysis
       ELSE LET res == generateConsensus(runs[r].topic, runs[r].allFindings, o)
            IN  /\ analysis' = [analysis EXCEPT !.finalConsensus = res.v]
                /\ runs' = [runs EXCEPT ![r] = Settle([runs[r] EXCEPT !.pc = "done"])]
    /\ UNCHANGED <<inputText, isOrchestrating, current, call, ret>>

\* startAnalysis from the resolution of generateConsensus to its end.
ConsensusResolves(r, o) ==
    /\ runs[r].pc = "cons"
    /\ LET res == generateConsensus(runs[r].topic, runs[r].allFindings, o)
       IN  /\ analysis' = [analysis EXCEPT !.finalConsensus = res.v]
           /\ runs' = [runs EXCEPT ![r] = Settle([runs[r] EXCEPT !.pc = "done"])]
    /\ UNCHANGED <<inputText, isOrchestrating, current, call, ret>>

\* Mutant of Reset: the fields are reset one by one and agents and
\* finalConsensus are forgotten.
ResetIncremental ==
    /\ analysis.status # "input"
    /\ analysis' = [analysis EXCEPT !.topic = <<>>, !.status = "input"]
    /\ inputText' = <<>>
    /\ current' = 0
    /\ UNCHANGED <<isOrchestrating, runs, call, ret>>

\* reset(); the New Analysis button is rendered while status is not 'input'.
Reset ==
    /\ analysis.status # "input"
    /\ analysis' = InitialAnalysis
    /\ inputText' = <<>>
    /\ current' = 0
    /\ UNCHANGED <<isOrchestrating, runs, call, ret>>

\* Runs that the user may reset and follow with new ones.
Next ==
    \/ \E s \in Texts : SetInputText(s)
    \/ StartAnalysis
    \/ \E r \in 1..Len(runs) : \E o \in OrchReplies : OrchestratorResolves(r, o)
    \/ \E r \in 1..Len(runs) : \E i \in 1..Len(AVAILABLE_AGENTS) :
           \E o \in AgentReplies(i) : AgentResolves(r, i, o)
    \/ \E r \in 1..Len(runs) : \E o \in ConsensusReplies : ConsensusResolves(r, o)
    \/ Reset

Spec == Init /\ [][Next]_vars

\* One run that is never reset, against the wider outcomes; every call that is
\* pending settles.
RunNext ==
    \/ \E s \in TextsWide : SetInputText(s)
    \/ StartAnalysis
    \/ \E r \in 1..Len(runs) : \E o \in OrchRepliesWide : OrchestratorResolves(r, o)
    \/ \E r \in 1..Len(runs) : \E i \in 1..Len(AVAILABLE_AGENTS) :
           \E o \in AgentRepliesWide(i) : AgentResolves(r, i, o)
    \/ \E r \in 1..Len(runs) : \E o \in ConsensusRepliesWide : ConsensusResolves(r, o)

RunFair ==
    /\ WF_vars(\E r \in 1..Len(runs) : \E o \in OrchRepliesWide :
                   OrchestratorResolves(r, o))
    /\ \A i \in 1..Len(AVAILABLE_AGENTS) :
           WF_vars(\E r \in 1..Len(runs) : \E o \in AgentRepliesWide(i) :
                       AgentResolves(r, i, o))
    /\ WF_vars(\E r \in 1..Len(runs) : \E o \in ConsensusRepliesWide :
                   ConsensusResolves(r, o))

RunSpec == Init /\ [][RunNext]_vars /\ RunFair

\* Runs submitted with different topics, reset and followed by new ones, all
\* service calls answering.
TopicTexts == {<<>>, <<"a">>, <<"b">>}

TopicNext ==
    \/ \E s \in TopicTexts : SetInputText(s)
    \/ StartAnalysis
    \/ \E r \in 1..Len(runs) : OrchestratorResolves(r, Responds(<<"sTwo">>))
    \/ \E r \in 1..Len(runs) : \E i \in 1..Len(AVAILABLE_AGENTS) :
           AgentResolves(r, i, Responds(<<"dYes">>))
    \/ \E r \in 1..Len(runs) : ConsensusResolves(r, Responds(<<"cGood">>))
    \/ Reset

TopicSpec == Init /\ [][TopicNext]_vars

\* ------------------------------------------------------------ runAgentAnalysis alone

AgentTokens ==
    {" ", "FENCE", "json", "x", "dNull", "dString", "dArray", "dEmpty", "dYes",
     "dNo", "dScore", "dMaybe", "dNoArr"}

TextsUpTo(tokens, n) == UNION {[1..k -> tokens] : k \in 0..n}

AgentOutcomes ==
    {Throws(x) : x \in ThrownValues} \cup {NoText}
        \cup {Responds(s) : s \in TextsUpTo(AgentTokens, MaxLen)}

AgentInit ==
    /\ analysis = InitialAnalysis
    /\ inputText = <<>>
    /\ isOrchestrating = FALSE
    /\ runs = <<>>
    /\ current = 0
    /\ call \in {[fn |-> "runAgentAnalysis", role |-> role, o |-> o] :
                    role \in {"Finance", "Reddit"}, o \in AgentOutcomes}
    /\ ret = NotReturned

AgentReturns ==
    /\ call.fn = "runAgentAnalysis"
    /\ ret = NotReturned
    /\ ret' = runAgentAnalysis(call.role, <<"a">>, call.o)
    /\ UNCHANGED <<analysis, inputText, isOrchestrating, runs, current, call>>

AgentSpec == AgentInit /\ [][AgentReturns]_vars

\* ------------------------------------------------------------ generateConsensus alone

\* Service outcomes of agent calls, one of each kind of value that
\* runAgentAnalysis resolves to.
FindingOutcomes ==
    {Throws(JError("Error")), Responds(<<"dYes">>), Responds(<<"dNull">>),
     Responds(<<"dEmpty">>)}

\* The values runAgentAnalysis resolves to under those outcomes.
ResolvedFindings ==
    {res.v : res \in {x \in {runAgentAnalysis("Finance", <<"a">>, o) :
                                  o \in FindingOutcomes} : x.kind = "resolved"}}

\* allFindings as startAnalysis builds it: entry i carries the role of agent i.
FindingsLists ==
    UNION {[1..n -> {[role |-> role, data |-> d] :
                        role \in {"Finance"}, d \in ResolvedFindings}] :
              n \in 0..MaxFindings}

ConsensusTokens == {" ", "x", "cGood", "cTwo", "cHigh", "dNull"}

ConsensusOutcomes ==
    {Throws(x) : x \in ThrownValues} \cup {NoText}
        \cup {Responds(s) : s \in TextsUpTo(ConsensusTokens, MaxLen)}

ConsensusInit ==
    /\ analysis = InitialAnalysis
    /\ inputText = <<>>
    /\ isOrchestrating = FALSE
    /\ runs = <<>>
    /\ current = 0
    /\ call \in {[fn |-> "generateConsensus", role |-> "", o |-> o, topic |-> topic,
                  agentResults |-> found] :
                    o \in ConsensusOutcomes, topic \in {<<"a">>, <<" ", "b", " ">>},
                    found \in FindingsLists}
    /\ ret = NotReturned

ConsensusReturns ==
    /\ call.fn = "generateConsensus"
    /\ ret = NotReturned
    /\ ret' = generateConsensus(call.topic, call.agentResults, call.o)
    /\ UNCHANGED <<analysis, inputText, isOrchestrating, runs, current, call>>

ConsensusSpec == ConsensusInit /\ [][ConsensusReturns]_vars

\* ------------------------------------------------------------ orchestrateAgents alone

\* The catalogs orchestrateAgents is called with: the first n roles.
RoleCatalogs == {SubSeq(AVAILABLE_AGENTS, 1, n) : n \in 1..Len(AVAILABLE_AGENTS)}

OrchTokens ==
    {" ", "x", "dNull", "sThree", "sTwo", "sDup", "sAlien", "sMixed", "sNoList",
     "sText"}

OrchOutcomes ==
    {Throws(x) : x \in ThrownValues} \cup {NoText}
        \cup {Responds(s) : s \in TextsUpTo(OrchTokens, MaxLen)}

OrchInit ==
    /\ analysis = InitialAnalysis
    /\ inputText = <<>>
    /\ isOrchestrating = FALSE
    /\ runs = <<>>
    /\ current = 0
    /\ call \in {[fn |-> "orchestrateAgents", role |-> "", o |-> o,
                  availableRoles |-> roles] :
                    o \in OrchOutcomes, roles \in RoleCatalogs}
    /\ ret = NotReturned

OrchReturns ==
    /\ call.fn = "orchestrateAgents"
    /\ ret.kind = "pending"
    /\ ret' = Resolved(orchestrateAgents(<<"a">>, call.availableRoles, call.o))
    /\ UNCHANGED <<analysis, inputText, isOrchestrating, runs, current, call>>

OrchSpec == OrchInit /\ [][OrchReturns]_vars

\* ------------------------------------------------------------ fenced responses

\* Nothing or whitespace.
Blanks == {<<>>, <<" ">>}

\* The well-formed findings documents.
FindingsDocs == {d \in Docs : IsAgentFindings(DocValue[d])}

\* j wrapped in an opening fence, with or without the word json, and a closing
\* fence, with whitespace around and inside; stray is a further fence, or
\* nothing, that ends up inside the wrapping.
Fenced(lead, tag, inL, j, inR, stray, trail) ==
    lead \o <<"FENCE">> \o tag \o inL \o <<j>> \o inR \o stray \o <<"FENCE">> \o trail

FenceInit ==
    /\ analysis = InitialAnalysis
    /\ inputText = <<>>
    /\ isOrchestrating = FALSE
    /\ runs = <<>>
    /\ current = 0
    /\ call \in {[fn |-> "runAgentAnalysis", role |-> "Finance",
                  o |-> Responds(Fenced(lead, tag, inL, j, inR, stray, trail)),
                  plain |-> Responds(<<j>>), stray |-> stray] :
                    lead \in Blanks, tag \in {<<>>, <<"json">>}, inL \in Blanks,
                    j \in FindingsDocs, inR \in Blanks,
                    stray \in {<<>>, <<"FENCE">>}, trail \in Blanks}
    /\ ret = NotReturned

FenceSpec == FenceInit /\ [][AgentReturns]_vars

\* ------------------------------------------------------------ properties

NoCallPending(run) == run.pc \in {"done", "failed"} /\ ~AnyPending(run)

Rank(status) ==
    CASE status = "input" -> 0
      [] status = "orchestrating" -> 1
      [] status = "swarming" -> 2
      [] status = "consensus" -> 3

\* C1: from reset() until the next accepted submission the Market Analysis is
\* exactly {topic: '', status: 'input', agents: []} with no finalConsensus,
\* whatever calls of abandoned runs resolve meanwhile.
C1_ResetStateKept == current = 0 => analysis = InitialAnalysis

\* C2: in a run submitted after a reset, agents holds only Agent Instances made
\* from that run's own selection (none while its orchestrator call is pending),
\* never one made by an earlier run.
C2_NoResidualAgents ==
    current >= 2 =>
        \A k \in 1..Len(analysis.agents) : analysis.agents[k].run = current

\* C3: every change of MarketAnalysis.status is a reset() or a move forward in
\* input < orchestrating < swarming < consensus.
C3_StatusForwardOnly ==
    [][Reset \/ Rank(analysis'.status) >= Rank(analysis.status)]_vars

\* C4: a run has called generateConsensus only if every runAgentAnalysis call
\* of that run has resolved; none of them is pending (or rejected) then.
C4_ConsensusAfterAllAgents ==
    \A r \in 1..Len(runs) :
        runs[r].consCalls > 0 =>
            \A k \in 1..Len(runs[r].agentCall) : runs[r].agentCall[k] = "resolved"

C4_Witness ==
    \E r \in 1..Len(runs) :
        /\ runs[r].pc = "cons"
        /\ Len(runs[r].agentCall) >= 2
        /\ \E q \in 1..Len(runs) : q # r /\ AnyPending(runs[q])

\* C5: whenever status is 'consensus', every Agent Instance in agents is
\* 'completed'.
C5_ConsensusImpliesCompleted ==
    analysis.status = "consensus" =>
        \A k \in 1..Len(analysis.agents) : analysis.agents[k].status = "completed"

\* C6: the list a run passes to generateConsensus has one entry per selected
\* role, the i-th being {role: the i-th selected role, data: what the call of
\* the i-th agent resolved to}.
C6_FindingsInSelectionOrder ==
    \A r \in 1..Len(runs) :
        runs[r].consCalls > 0 =>
            /\ Len(runs[r].allFindings) = Len(runs[r].selectedRoles)
            /\ \A i \in 1..Len(runs[r].selectedRoles) :
                   /\ runs[r].allFindings[i].role = runs[r].selectedRoles[i]
                   /\ runs[r].allFindings[i].data = runs[r].results[i]

C6_Witness ==
    \E r \in 1..Len(runs) :
        /\ runs[r].pc = "cons"
        /\ runs[r].selectedRoles = <<"Macro", "Finance">>
        /\ runs[r].allFindings[1].data = AgentSentinel
        /\ runs[r].allFindings[2].data = DocValue["dNo"]
        /\ \E q \in 1..Len(runs) : q # r /\ AnyPending(runs[q])

\* C7: once every call of a run that was never reset has settled, the status
\* is 'consensus' and finalConsensus is populated.
C7_RunReachesConsensus ==
    (runs # <<>> /\ \A r \in 1..Len(runs) : NoCallPending(runs[r])) =>
        (analysis.status = "consensus" /\ analysis.finalConsensus # JUndefined)

\* C8: the promise of runAgentAnalysis is never rejected, whatever the service
\* call throws or returns.
C8_AgentNeverRejects == ret.kind # "rejected"

\* C9: what runAgentAnalysis resolves to has the Agent Findings shape:
\* keyFindings an array of strings, reasoning a string, confidenceScore a
\* number in 0..100, prediction one of YES, NO, UNCERTAIN.
C9_AgentFindingsShape == ret.kind = "resolved" => IsAgentFindings(ret.v)

AgentCallFailed(o) ==
    \/ o.kind = "throw"
    \/ ~TextTruthy(o)
    \/ ~JSONParse(Unfenced(o.text)).ok

\* C10: when the service call throws, returns no or empty text, or text that
\* is not parseable after fence stripping, runAgentAnalysis resolves to exactly
\* the sentinel finding.
C10_SentinelOnFailure ==
    (ret # NotReturned /\ AgentCallFailed(call.o)) => ret = Resolved(AgentSentinel)

\* C11: the promise of generateConsensus is never rejected, for every findings
\* list made of values that runAgentAnalysis resolves to and every outcome of
\* the service call.
C11_ConsensusNeverRejects ==
    call.fn = "generateConsensus" => ret.kind # "rejected"

\* generateContent is reached only when the context string could be built.
ConsensusCallIssued(agentResults) == ~ContextThrows(agentResults)

ConsensusCallFailed(o) ==
    \/ o.kind = "throw"
    \/ ~TextTruthy(o)
    \/ ~JSONParse(o.text).ok

\* C12: when the consensus service call throws, returns no or empty text, or
\* returns text that JSON.parse rejects, generateConsensus resolves to exactly
\* {probability: 50, topReasons: ["Conflicting data", "Insufficient
\* consensus"], verdict: "Unable to reach consensus."}.
C12_ConsensusSentinelOnFailure ==
    (/\ call.fn = "generateConsensus"
     /\ ret # NotReturned
     /\ ConsensusCallIssued(call.agentResults)
     /\ ConsensusCallFailed(call.o)) =>
        ret = Resolved(JObj([probability |-> JNum(50),
                             topReasons |-> JArr(<<JStr("Conflicting data"),
                                                   JStr("Insufficient consensus")>>),
                             verdict |-> JStr("Unable to reach consensus.")]))

C12_Witness ==
    /\ call.fn = "generateConsensus"
    /\ call.o = Throws(JUndefined)
    /\ Len(call.agentResults) = MaxFindings
    /\ call.agentResults[1].data = AgentSentinel
    /\ ret = Resolved(ConsensusSentinel)

IsConsensusResult(x) ==
    /\ x.t = "obj"
    /\ GetField(x, "probability").t = "num"
    /\ GetField(x, "probability").v \in 0..100
    /\ GetField(x, "topReasons").t = "arr"
    /\ Len(GetField(x, "topReasons").v) = 3

\* C13: for a non-empty findings list and every outcome of the service call,
\* generateConsensus resolves to a value whose probability is a number in
\* 0..100 and whose topReasons has exactly 3 elements.
C13_ConsensusResultShape ==
    (call.fn = "generateConsensus" /\ ret # NotReturned /\ call.agentResults # <<>>) =>
        (ret.kind = "resolved" /\ IsConsensusResult(ret.v))

\* C14: every element of the sequence orchestrateAgents returns is a member
\* of availableRoles, whatever the service answered.
C14_SelectionWithinCatalog ==
    (call.fn = "orchestrateAgents" /\ ret.kind = "resolved") =>
        \A i \in 1..Len(ret.v) :
            \E k \in 1..Len(call.availableRoles) : ret.v[i] = call.availableRoles[k]

C14_Witness ==
    /\ call.fn = "orchestrateAgents"
    /\ call.o = Responds(<<"sMixed">>)
    /\ call.availableRoles = SubSeq(AVAILABLE_AGENTS, 1, 4)
    /\ ret.kind = "resolved"
    /\ ret.v = <<"Finance", "Reddit", "Newsfeed">>

\* The service call succeeded: its text parses to an object (or other
\* non-null value) with a selectedAgents array.
OrchCallSucceeded(o) ==
    /\ o.kind = "response"
    /\ TextTruthy(o)
    /\ JSONParse(o.text).ok
    /\ ~IsNullish(JSONParse(o.text).v)
    /\ GetField(JSONParse(o.text).v, "selectedAgents").t = "arr"

\* C15: when the orchestrator service call succeeds, orchestrateAgents
\* returns between 3 and 6 roles, whatever roles the service listed.
C15_SelectionLength ==
    (call.fn = "orchestrateAgents" /\ ret.kind = "resolved"
        /\ OrchCallSucceeded(call.o)) =>
            Len(ret.v) \in 3..6

\* C16: when the orchestrator service call throws, returns no or empty text,
\* invalid JSON or a document without a selectedAgents list, orchestrateAgents
\* resolves to the first 3 elements of availableRoles in catalog order, and
\* the Agent Instances made from the result carry exactly those roles.
C16_FallbackFirstThree ==
    (call.fn = "orchestrateAgents" /\ ret.kind # "pending"
        /\ ~OrchCallSucceeded(call.o)) =>
            LET n == IF Len(call.availableRoles) < 3 THEN Len(call.availableRoles)
                     ELSE 3
            IN  /\ ret.kind = "resolved"
                /\ ret.v = [i \in 1..n |-> call.availableRoles[i]]
                /\ [i \in 1..Len(ret.v) |-> NewAgents(1, ret.v)[i].role]
                       = [i \in 1..n |-> call.availableRoles[i]]

C16_Witness ==
    /\ call.fn = "orchestrateAgents"
    /\ call.o = Responds(<<"sText">>)
    /\ call.availableRoles = AVAILABLE_AGENTS
    /\ ret.kind = "resolved"
    /\ ret.v = <<"Newsfeed", "Social Media", "Reddit">>

AgentRank(status) ==
    CASE status = "selected" -> 0
      [] status = "analyzing" -> 1
      [] status = "completed" -> 2

\* C17: but for reset(), the status held under an agent id never moves back
\* in selected < analyzing < completed.
C17_AgentStatusForwardOnly ==
    [][Reset \/ \A k \in 1..Len(analysis.agents) :
                    \A j \in 1..Len(analysis'.agents) :
                        analysis'.agents[j].id = analysis.agents[k].id =>
                            AgentRank(analysis'.agents[j].status)
                                >= AgentRank(analysis.agents[k].status)]_vars

\* C18: an Agent Instance has findings exactly when it is 'completed', and the
\* findings attached to an instance stay the same for as long as that instance
\* (the agent of that id made by that run) is in agents.
C18_FindingsSetOnce ==
    /\ [](\A k \in 1..Len(analysis.agents) :
             (analysis.agents[k].findings # JUndefined)
                 <=> (analysis.agents[k].status = "completed"))
    /\ [][\A k \in 1..Len(analysis.agents) :
             \A j \in 1..Len(analysis'.agents) :
                 (/\ analysis'.agents[j].id = analysis.agents[k].id
                  /\ analysis'.agents[j].run = analysis.agents[k].run
                  /\ analysis.agents[k].findings # JUndefined) =>
                     analysis'.agents[j].findings = analysis.agents[k].findings]_vars

\* The step in which the call of agent i of run r settles and its callback
\* resumes.
AgentCallReturns(r, i) ==
    /\ r \in 1..Len(runs)
    /\ i \in 1..Len(runs[r].agentCall)
    /\ runs[r].agentCall[i] = "pending"
    /\ (Len(runs'[r].agentCall) < i \/ runs'[r].agentCall[i] # "pending")

\* C19: the 'completed' update of agent i of run r leaves the length and order
\* of agents, topic and finalConsensus as they were and changes no Agent
\* Instance other than the one run r made as agent i; status changes in that
\* step only by the run's own move to 'consensus'.
C19_UpdateOwnInstanceOnly ==
    [][\A r \in 1..MaxRuns : \A i \in 1..Len(AVAILABLE_AGENTS) :
           AgentCallReturns(r, i) =>
               /\ Len(analysis'.agents) = Len(analysis.agents)
               /\ analysis'.topic = analysis.topic
               /\ analysis'.finalConsensus = analysis.finalConsensus
               /\ analysis'.status \in {analysis.status, "consensus"}
               /\ \A k \in 1..Len(analysis.agents) :
                      (analysis.agents[k].run # r \/ analysis.agents[k].id # i - 1) =>
                          analysis'.agents[k] = analysis.agents[k]]_vars

\* C20: in a run that is never reset, once every agent call has resolved,
\* agents holds one Agent Instance per call, in selection order, each
\* 'completed' with the value its own call resolved to as findings.
C20_NoLostUpdate ==
    \A r \in 1..Len(runs) :
        (runs[r].consCalls > 0 /\ runs[r].pc \in {"cons", "failed"}) =>
            /\ Len(analysis.agents) = Len(runs[r].results)
            /\ \A i \in 1..Len(runs[r].results) :
                   /\ analysis.agents[i].id = i - 1
                   /\ analysis.agents[i].role = runs[r].selectedRoles[i]
                   /\ analysis.agents[i].status = "completed"
                   /\ analysis.agents[i].findings = runs[r].results[i]

C20_Witness ==
    \E r \in 1..Len(runs) :
        /\ runs[r].pc = "cons"
        /\ Len(runs[r].results) = 3
        /\ runs[r].results[1] = AgentSentinel
        /\ runs[r].results[2] = DocValue["dNo"]
        /\ analysis.agents[1].findings = AgentSentinel
        /\ analysis.agents[2].findings = DocValue["dNo"]
        /\ analysis.agents[3].findings = DocValue["dYes"]

\* The step in which the orchestrateAgents call of run r resolves and
\* startAnalysis resumes.
OrchCallReturns(r) ==
    /\ r \in 1..Len(runs)
    /\ runs[r].pc = "orch"
    /\ runs'[r].pc # "orch"

\* C21: when the orchestrator call of a run resolves with selection r1..rn,
\* the list installed with status 'swarming' has n Agent Instances, the i-th
\* with role ri (a catalog role), id i-1, status 'selected' and no findings,
\* and agents holds those n instances in that order after the step.
C21_AgentsInstalled ==
    [][\A r \in 1..MaxRuns :
           OrchCallReturns(r) =>
               LET sel == runs'[r].selectedRoles
                   made == runs'[r].newAgents
               IN  /\ Len(made) = Len(sel)
                   /\ \A i \in 1..Len(sel) :
                          /\ made[i].role = sel[i]
                          /\ Includes(AVAILABLE_AGENTS, sel[i])
                          /\ made[i].id = i - 1
                          /\ made[i].status = "selected"
                          /\ made[i].findings = JUndefined
                   /\ \A i, k \in 1..Len(made) : made[i].id = made[k].id => i = k
                   /\ Len(analysis'.agents) = Len(sel)
                   /\ \A i \in 1..Len(sel) :
                          /\ analysis'.agents[i].role = sel[i]
                          /\ analysis'.agents[i].id = i - 1
                          /\ analysis'.agents[i].run = r
                          /\ analysis'.agents[i].findings = JUndefined]_vars

C21_Witness ==
    /\ Len(runs) = 2
    /\ runs[2].pc = "swarm"
    /\ runs[2].selectedRoles = <<"Macro", "Finance">>
    /\ \A k \in 1..2 : runs[2].agentCall[k] = "pending"
    /\ Len(analysis.agents) = 2
    /\ analysis.agents[1] = [runs[2].newAgents[1] EXCEPT !.status = "analyzing"]
    /\ analysis.agents[2].id = 1
    /\ AnyPending(runs[1])

\* C22: when the call of agent i of a run settles, its Agent Instance becomes
\* 'completed', with the sentinel as findings when the service call failed and
\* with the parsed findings otherwise; no sibling changes; and when it was the
\* last call of the run, the run goes on to call generateConsensus.
C22_FailureIsolation ==
    [][\A r \in 1..Len(runs) : \A i \in 1..Len(AVAILABLE_AGENTS) :
           \A o \in AgentRepliesWide(i) :
               AgentResolves(r, i, o) =>
                   /\ analysis'.agents[i].status = "completed"
                   /\ analysis'.agents[i].findings =
                          IF AgentCallFailed(o) THEN AgentSentinel
                          ELSE JSONParse(Unfenced(o.text)).v
                   /\ \A k \in 1..Len(analysis.agents) :
                          k # i => analysis'.agents[k] = analysis.agents[k]
                   /\ runs'[r].pc # "swarm" =>
                          (runs'[r].consCalls = 1 /\ analysis'.status = "consensus")]_vars

\* C23: finalConsensus is present only after the generateConsensus call of the
\* current run has resolved and only while status is 'consensus'; the step
\* that sets it stores the value that call resolved to; once present it
\* changes only by reset().
C23_FinalConsensusLifecycle ==
    /\ [](analysis.finalConsensus # JUndefined =>
             /\ analysis.status = "consensus"
             /\ current # 0
             /\ runs[current].pc = "done")
    /\ [][\A r \in 1..Len(runs) : \A o \in ConsensusRepliesWide :
             ConsensusResolves(r, o) =>
                 analysis'.finalConsensus = ConsensusParse(o).v]_vars
    /\ [][analysis.finalConsensus # JUndefined =>
             (Reset \/ analysis'.finalConsensus = analysis.finalConsensus)]_vars

\* C24: reset() can be invoked whenever status is 'orchestrating', 'swarming'
\* or 'consensus', and the step that takes status back to 'input' leaves the
\* Market Analysis as {topic: '', status: 'input', agents: []} without
\* finalConsensus and the input text empty.
C24_ResetReplacesAll ==
    /\ [](analysis.status # "input" => ENABLED Reset)
    /\ [][(analysis.status # "input" /\ analysis'.status = "input") =>
             (/\ analysis' = [topic |-> <<>>, status |-> "input", agents |-> <<>>,
                              finalConsensus |-> JUndefined]
              /\ inputText' = <<>>)]_vars

C24_Witness ==
    /\ current = 0
    /\ Len(runs) = 2
    /\ runs[1].pc = "done"
    /\ runs[2].pc = "swarm"
    /\ \E k \in 1..Len(runs[2].agentCall) : runs[2].agentCall[k] = "resolved"
    /\ AnyPending(runs[2])
    /\ analysis = InitialAnalysis
    /\ inputText = <<>>

\* C25: while the input text is empty or whitespace only, no step takes
\* status from 'input' to 'orchestrating' and none starts a run (issues an
\* orchestrator call); a run that starts has the input text as its topic; and
\* no step that leaves status at 'input' changes the topic.
C25_BlankSubmissionRejected ==
    [][/\ (analysis.status = "input" /\ analysis'.status = "orchestrating") =>
            Trim(inputText) # <<>>
       /\ Len(runs') # Len(runs) =>
            (/\ Trim(inputText) # <<>>
             /\ runs' = Append(runs, NewRun(inputText)))
       /\ (analysis.status = "input" /\ analysis'.status = "input") =>
            analysis'.topic = analysis.topic]_vars

C25_Witness ==
    /\ inputText = <<" ">>
    /\ analysis = InitialAnalysis
    /\ Len(runs) = 1
    /\ runs[1].pc = "done"
    /\ ENABLED StartAnalysis

\* C26: whenever status is not 'input' there is a current run, topic is not
\* blank and is the topic that run was submitted with, and a step between two
\* states with status other than 'input' leaves topic unchanged.
C26_TopicOfCurrentRun ==
    /\ [](analysis.status # "input" =>
             /\ current # 0
             /\ Trim(analysis.topic) # <<>>
             /\ ~NoCallPending(runs[current]) => analysis.topic = runs[current].topic)
    /\ [][(analysis.status # "input" /\ analysis'.status # "input") =>
             analysis'.topic = analysis.topic]_vars

\* C27: while the orchestrateAgents call of a run is pending the run has
\* issued no runAgentAnalysis call (and no generateConsensus call).
C27_NoAgentCallBeforeSelection ==
    \A r \in 1..Len(runs) :
        runs[r].pc = "orch" =>
            (runs[r].agentCall = <<>> /\ runs[r].newAgents = <<>>
                /\ runs[r].consCalls = 0)

C27_Witness ==
    /\ Len(runs) = 2
    /\ runs[2].pc = "orch"
    /\ runs[1].pc = "swarm"
    /\ runs[1].agentCall = <<"pending", "resolved">>
    /\ analysis.status = "swarming"

\* C28: a run calls the service once for orchestration (at submission; it
\* never waits for the orchestrator again), once per Agent Instance (all
\* issued when the orchestrator resolves; a call that has settled is never
\* pending again and no further call is added) and at most once for
\* consensus, also after failures and after a reset.
C28_NoRetries ==
    /\ [](\A r \in 1..Len(runs) : runs[r].consCalls <= 1)
    /\ [][\A r \in 1..Len(runs) :
             /\ runs[r].pc # "orch" => runs'[r].pc # "orch"
             /\ runs[r].pc # "orch" =>
                    Len(runs'[r].agentCall) \in {0, Len(runs[r].agentCall)}
             /\ \A i \in 1..Len(runs'[r].agentCall) :
                    (runs[r].pc # "orch" /\ runs[r].agentCall[i] # "pending") =>
                        runs'[r].agentCall[i] = runs[r].agentCall[i]
             /\ runs'[r].consCalls >= runs[r].consCalls]_vars

C28_Witness ==
    /\ Len(runs) = 2
    /\ current = 0
    /\ runs[1].pc = "done"
    /\ runs[1].consCalls = 1
    /\ runs[2].pc = "failed"
    /\ runs[2].consCalls = 0
    /\ ~AnyPending(runs[2])

\* C29: in the step in which the orchestrator call of a run resolves, every
\* agent of the run is set 'analyzing' and its call is issued, before any of
\* them can resolve; and in every state no Agent Instance is 'completed' while
\* another of the same run is 'selected'.
C29_ParallelIssue ==
    /\ [](\A k, j \in 1..Len(analysis.agents) :
             (analysis.agents[k].run = analysis.agents[j].run
                 /\ analysis.agents[k].status = "completed") =>
                     analysis.agents[j].status # "selected")
    /\ [][\A r \in 1..MaxRuns :
             OrchCallReturns(r) =>
                 /\ Len(runs'[r].agentCall) = Len(runs'[r].selectedRoles)
                 /\ \A i \in 1..Len(runs'[r].agentCall) :
                        /\ runs'[r].agentCall[i] = "pending"
                        /\ analysis'.agents[i].status = "analyzing"
                        /\ analysis'.agents[i].run = r]_vars

C29_Witness ==
    /\ Len(runs) = 1
    /\ runs[1].agentCall = <<"pending", "resolved">>
    /\ analysis.agents[1].status = "analyzing"
    /\ analysis.agents[2].status = "completed"
    /\ analysis.agents[2].findings = DocValue["dNo"]

\* C30: for a well-formed findings document j, the response j wrapped in an
\* opening fence (with or without json) and a closing fence, with whitespace
\* around, makes runAgentAnalysis return what the response j alone does, the
\* findings of j; a fence that is not at the very start or end of the trimmed
\* text is not removed (the text then does not parse).
C30_FenceStripping ==
    (call.fn = "runAgentAnalysis" /\ ret # NotReturned) =>
        IF call.stray = <<>>
        THEN /\ ret = runAgentAnalysis(call.role, <<"a">>, call.plain)
             /\ ret = Resolved(DocValue[call.plain.text[1]])
        ELSE ret = Resolved(AgentSentinel)

C30_Witness ==
    /\ call.fn = "runAgentAnalysis"
    /\ call.o = Responds(<<" ", "FENCE", "json", " ", "dYes", " ", "FENCE", " ">>)
    /\ ret = Resolved(DocValue["dYes"])

\* C31: the sequence orchestrateAgents returns holds no role twice, and the
\* Agent Instances made from it have pairwise different roles.
C31_SelectionHasNoDuplicates ==
    (call.fn = "orchestrateAgents" /\ ret.kind = "resolved") =>
        /\ \A i, k \in 1..Len(ret.v) : ret.v[i] = ret.v[k] => i = k
        /\ \A i, k \in 1..Len(ret.v) :
               NewAgents(1, ret.v)[i].role = NewAgents(1, ret.v)[k].role => i = k

\* C32: isOrchestrating is true in exactly the states in which status is
\* 'orchestrating'.
C32_FlagMatchesStatus ==
    isOrchestrating <=> (analysis.status = "orchestrating")

\* C33: a run whose orchestrator call has resolved has at least one selected
\* role, the list it hands to generateConsensus is not empty, and status is
\* never 'consensus' with an empty agents list.
C33_AtLeastOneAgent ==
    /\ \A r \in 1..Len(runs) :
           /\ runs[r].pc \in {"swarm", "cons"} => runs[r].selectedRoles # <<>>
           /\ runs[r].pc = "cons" => runs[r].allFindings # <<>>
    /\ analysis.status = "consensus" => analysis.agents # <<>>

\* C34: every service call of a run (orchestration, agent analyses,
\* consensus) is given the topic the run was submitted with, whatever the
\* input box holds and whichever run was submitted since.
C34_CallsCarryRunTopic ==
    \A r \in 1..Len(runs) : runs[r].callTopics = {runs[r].submitted}

C34_Witness ==
    /\ Len(runs) = 2
    /\ runs[1].submitted = <<"a">>
    /\ runs[2].submitted = <<"b">>
    /\ runs[2].pc = "orch"
    /\ runs[1].pc = "cons"
    /\ analysis.status = "consensus"
    /\ analysis.topic = <<"b">>
    /\ inputText = <<"b">>
    /\ runs[1].callTopics = {<<"a">>}

====
